---- MODULE Spec2Model ----
(***************************************************************************)
(* Model of synapseclient/entity.py: the Entity container with its three   *)
(* namespaces (object members, properties, annotations), the variant       *)
(* classes and the type registry used by Entity.create.                    *)
(*                                                                         *)
(* Representation.                                                         *)
(*   - a mapping (dict / DictObject) is a function whose DOMAIN is its key *)
(*     set and whose values are strings;                                   *)
(*   - an entity is a record: cls is its class, properties and annotations *)
(*     are the two containers held in the object's __dict__, hasPath/path  *)
(*     is the 'path' member File.__init__ adds to __dict__;                *)
(*   - a value handed to an assignment is a record that is either a scalar *)
(*     (isMap = FALSE, s) or a mapping (isMap = TRUE, m);                  *)
(*   - an argument of a constructor is a record with a kind: "none",       *)
(*     "map", "ent" (an existing Entity), "str" or "other".                *)
(* Inputs are type-correct: the members 'properties' and 'annotations' are *)
(* only ever assigned mappings, every other key is assigned a scalar.      *)
(***************************************************************************)
EXTENDS Naturals, FiniteSets

VARIABLES ents, last, nops

vars == <<ents, last, nops>>

(***************************************************************************)
(* Bounds of the model.                                                    *)
(***************************************************************************)
\* number of assignments / deletions / reads after construction (Spec)
MaxOps == 2

(***************************************************************************)
(* Class metadata: _synapse_class and _property_keys of every class.       *)
(***************************************************************************)
Classes ==
  {"Entity", "Project", "Folder", "File", "Analysis", "Code", "Data", "Study", "Summary"}

SynapseClass(cls) ==
  CASE cls = "Entity"   -> "org.sagebionetworks.repo.model.Entity"
    [] cls = "Project"  -> "org.sagebionetworks.repo.model.Project"
    [] cls = "Folder"   -> "org.sagebionetworks.repo.model.Folder"
    [] cls = "File"     -> "org.sagebionetworks.repo.model.FileEntity"
    [] cls = "Analysis" -> "org.sagebionetworks.repo.model.Analysis"
    [] cls = "Code"     -> "org.sagebionetworks.repo.model.Code"
    [] cls = "Data"     -> "org.sagebionetworks.repo.model.Data"
    [] cls = "Study"    -> "org.sagebionetworks.repo.model.Study"
    [] cls = "Summary"  -> "org.sagebionetworks.repo.model.Summary"

VersionablePropertyKeys ==
  {"versionNumber", "versionLabel", "versionComment", "versionUrl", "versions"}

EntityPropertyKeys ==
  {"id", "name", "description", "parentId", "entityType", "concreteType",
   "uri", "etag", "annotations", "accessControlList",
   "createdOn", "createdBy", "modifiedOn", "modifiedBy"}

LocationablePropertyKeys ==
  VersionablePropertyKeys \cup {"locations", "md5", "contentType", "s3Token"}

FilePropertyKeys ==
  EntityPropertyKeys \cup VersionablePropertyKeys \cup {"dataFileHandleId"}

\* cls._property_keys, resolved through the class hierarchy
PropertyKeys(cls) ==
  CASE cls \in {"Entity", "Project", "Folder", "Analysis"} -> EntityPropertyKeys
    [] cls = "File" -> FilePropertyKeys
    [] cls \in {"Code", "Data", "Study"} -> EntityPropertyKeys \cup LocationablePropertyKeys
    [] cls = "Summary" -> EntityPropertyKeys \cup VersionablePropertyKeys

\* itersubclasses(Entity): every class derived from Entity, directly or not
itersubclasses ==
  {"Project", "Folder", "File", "Analysis", "Code", "Data", "Study", "Summary"}

\* _entity_type_to_class, as the module-level loop leaves it
InitialRegistry ==
  [t \in {SynapseClass(c) : c \in itersubclasses} |->
     CHOOSE c \in itersubclasses : SynapseClass(c) = t]

(***************************************************************************)
(* Mappings (dict, DictObject).                                            *)
(***************************************************************************)
EmptyMap == [k \in {} |-> ""]

\* d[k] = v
MapSet(d, k, v) == [x \in (DOMAIN d) \cup {k} |-> IF x = k THEN v ELSE d[x]]

\* del d[k], for k in d
MapDel(d, k) == [x \in (DOMAIN d) \ {k} |-> d[x]]

\* d.update(other)
MapUpdate(d, other) ==
  [x \in (DOMAIN d) \cup (DOMAIN other) |-> IF x \in DOMAIN other THEN other[x] ELSE d[x]]

\* DictObject(value) for a mapping value: a new mapping with the same items
DictObject(m) == [x \in DOMAIN m |-> m[x]]

(***************************************************************************)
(* Values, entities and the results of operations.                         *)
(***************************************************************************)
SV(s) == [isMap |-> FALSE, s |-> s, m |-> EmptyMap]
MV(m) == [isMap |-> TRUE, s |-> "", m |-> m]

NoEntity ==
  [exists |-> FALSE, cls |-> "Entity", hasPath |-> FALSE, path |-> "None",
   properties |-> EmptyMap, annotations |-> EmptyMap]

\* Entity.__new__: both containers exist, and are empty, before __init__ runs
New(cls) ==
  [exists |-> TRUE, cls |-> cls, hasPath |-> FALSE, path |-> "None",
   properties |-> EmptyMap, annotations |-> EmptyMap]

\* the keys of self.__dict__
DictKeys(e) == {"properties", "annotations"} \cup (IF e.hasPath THEN {"path"} ELSE {})

\* self.__dict__[key], for key in self.__dict__
DictGet(e, key) ==
  CASE key = "properties"  -> MV(e.properties)
    [] key = "annotations" -> MV(e.annotations)
    [] key = "path"        -> SV(e.path)

\* Entity.__setitem__ when the key is a member of the object
SetMember(e, key, value) ==
  CASE key = "annotations" -> [e EXCEPT !.annotations = DictObject(value.m)]
    [] key = "properties"  -> [e EXCEPT !.properties = value.m]
    [] key = "path"        -> [e EXCEPT !.path = value.s]

\* __setitem__ testing Entity._property_keys instead of self.__class__._property_keys
setitemBaseKeys(e, key, value) ==
  IF key \in DictKeys(e) THEN SetMember(e, key, value)
  ELSE IF key \in EntityPropertyKeys
       THEN [e EXCEPT !.properties = MapSet(@, key, value.s)]
       ELSE [e EXCEPT !.annotations = MapSet(@, key, value.s)]

\* __setitem__ storing an unrecognized name as a member of the object
setitemNewMember(e, key, value) ==
  IF key \in DictKeys(e) THEN SetMember(e, key, value)
  ELSE IF key \in PropertyKeys(e.cls)
       THEN [e EXCEPT !.properties = MapSet(@, key, value.s)]
       ELSE IF key = "path" THEN [e EXCEPT !.hasPath = TRUE, !.path = value.s]
       ELSE [e EXCEPT !.annotations = MapSet(@, key, value.s)]

\* Entity.__setitem__ (and __setattr__, which only calls it)
setitem(e, key, value) ==
  IF key \in DictKeys(e) THEN SetMember(e, key, value)
  ELSE IF key \in PropertyKeys(e.cls)
       THEN [e EXCEPT !.properties = MapSet(@, key, value.s)]
       ELSE [e EXCEPT !.annotations = MapSet(@, key, value.s)]

Returned(v) == [exc |-> "none", val |-> v]
Raised(x) == [exc |-> x, val |-> SV("")]

\* __getitem__ looking in annotations before properties
getitemAnnotationsFirst(e, key) ==
  IF key \in DictKeys(e) THEN Returned(DictGet(e, key))
  ELSE IF key \in DOMAIN e.annotations THEN Returned(SV(e.annotations[key]))
  ELSE IF key \in DOMAIN e.properties THEN Returned(SV(e.properties[key]))
  ELSE Raised("KeyError")

\* Entity.__getitem__ (and __getattr__ for a name that is no member)
getitem(e, key) ==
  IF key \in DictKeys(e) THEN Returned(DictGet(e, key))
  ELSE IF key \in DOMAIN e.properties THEN Returned(SV(e.properties[key]))
  ELSE IF key \in DOMAIN e.annotations THEN Returned(SV(e.annotations[key]))
  ELSE Raised("KeyError")

\* __delitem__ with two independent tests in place of if / elif
delitemBoth(e, key) ==
  [e EXCEPT !.properties = IF key \in DOMAIN @ THEN MapDel(@, key) ELSE @,
            !.annotations = IF key \in DOMAIN @ THEN MapDel(@, key) ELSE @]

\* Entity.__delitem__
delitem(e, key) ==
  IF key \in DOMAIN e.properties THEN [e EXCEPT !.properties = MapDel(@, key)]
  ELSE IF key \in DOMAIN e.annotations THEN [e EXCEPT !.annotations = MapDel(@, key)]
  ELSE e

\* Entity.keys
keys(e) == (DOMAIN e.properties) \cup (DOMAIN e.annotations)

\* has_key resolving the key the way __getitem__ does
has_keyResolving(e, key) ==
  key \in DictKeys(e) \/ key \in DOMAIN e.properties \/ key \in DOMAIN e.annotations

\* Entity.has_key
has_key(e, key) == key \in DOMAIN e.properties \/ key \in DOMAIN e.annotations

\* Entity.__len__
len(e) == Cardinality(keys(e))

\* Entity.__iter__: the keys it yields
iter(e) == keys(e)

(***************************************************************************)
(* Constructor arguments.                                                  *)
(***************************************************************************)
\* properties=None / annotations=None
NoneArg ==
  [kind |-> "none", m |-> EmptyMap, hasNested |-> FALSE, nested |-> EmptyMap,
   s |-> "", truthy |-> FALSE, iterable |-> FALSE]

\* a mapping of scalar fields
MapArg(m) == [NoneArg EXCEPT !.kind = "map", !.m = m]

\* a mapping of scalar fields that also holds a nested mapping under 'annotations'
NestedArg(m, n) == [NoneArg EXCEPT !.kind = "map", !.m = m, !.hasNested = TRUE, !.nested = n]

\* an existing Entity (the prototype, held in ents[1])
EntArg == [NoneArg EXCEPT !.kind = "ent"]

\* a string
StrArg(s) == [NoneArg EXCEPT !.kind = "str", !.s = s, !.truthy = (s # ""), !.iterable = TRUE]

\* any other object: a number (not iterable) or a list (iterable), empty/zero or not
OtherArg(truthy, iterable) ==
  [NoneArg EXCEPT !.kind = "other", !.truthy = truthy, !.iterable = iterable]

\* isinstance(x, collections.Mapping)
IsMapping(x) == x.kind = "map"

\* bool(x), as 'if properties:' and 'if annotations:' take it
Truthy(x) ==
  CASE x.kind = "none" -> FALSE
    [] x.kind = "map"  -> (DOMAIN x.m # {}) \/ x.hasNested
    [] OTHER           -> x.truthy

\* os.path.basename(path)
basename(path) == IF path = "/tmp/v1" THEN "v1" ELSE path

Built(e) == [exc |-> "none", ent |-> e]
Failed(x) == [exc |-> x, ent |-> NoEntity]

(***************************************************************************)
(* Entity.__init__(self, properties, annotations, **kwargs).  kwargs is a  *)
(* mapping of keyword arguments; every one of them is a string.            *)
(***************************************************************************)
\* lines 110-117: the properties argument.  Gives the exception, the object
\* and the annotations argument as the block leaves them.
InitProperties(self, properties, annotations) ==
  IF ~Truthy(properties)
    THEN [exc |-> "none", self |-> self, annotations |-> annotations]
  ELSE IF ~IsMapping(properties)
    THEN [exc |-> "Exception:properties", self |-> self, annotations |-> annotations]
  ELSE IF properties.hasNested
    THEN IF annotations.kind # "map"
           \* annotations.update(...) on None, a string or a number
           THEN [exc |-> "AttributeError", self |-> self, annotations |-> annotations]
           ELSE [exc |-> "none",
                 self |-> [self EXCEPT !.properties = MapUpdate(@, properties.m)],
                 annotations |-> MapArg(MapUpdate(annotations.m, properties.nested))]
  ELSE [exc |-> "none",
        self |-> [self EXCEPT !.properties = MapUpdate(@, properties.m)],
        annotations |-> annotations]

\* lines 119-125: the annotations argument
InitAnnotations(self, annotations) ==
  IF ~Truthy(annotations) THEN Built(self)
  ELSE IF IsMapping(annotations)
    THEN Built([self EXCEPT !.annotations = MapUpdate(@, annotations.m)])
  ELSE IF annotations.kind = "str"
    THEN Built([self EXCEPT !.properties = MapSet(@, "annotations", annotations.s)])
  ELSE Failed("Exception:annotations")

\* lines 127-128: self.__setitem__(key, value) for every keyword argument
RECURSIVE InitKwargs(_, _)
InitKwargs(self, kwargs) ==
  IF DOMAIN kwargs = {} THEN self
  ELSE LET key == CHOOSE k \in DOMAIN kwargs : TRUE
       IN InitKwargs(setitem(self, key, SV(kwargs[key])), MapDel(kwargs, key))

EntityInit(self, properties, annotations, kwargs) ==
  LET p == InitProperties(self, properties, annotations) IN
  IF p.exc # "none" THEN Failed(p.exc)
  ELSE LET a == InitAnnotations(p.self, p.annotations) IN
       IF a.exc # "none" THEN a
       ELSE Built(InitKwargs(a.ent, kwargs))

(***************************************************************************)
(* The constructors cls(name=..., path=..., properties=..., annotations=...)*)
(* "None" stands for an argument that is not given.                        *)
(***************************************************************************)
NameKwarg(name) == IF name # "None" THEN [k \in {"name"} |-> name] ELSE EmptyMap

TypeKwarg(cls) == [k \in {"entityType"} |-> SynapseClass(cls)]

\* Project.__init__ and Folder.__init__ (parent is not given)
ProjectInit(self, name, properties, annotations) ==
  EntityInit(self, properties, annotations, MapUpdate(TypeKwarg(self.cls), NameKwarg(name)))

\* File.__init__ (parent is not given)
FileInit(self, name, path, properties, annotations) ==
  LET kwargs == IF path # "None" /\ name = "None"
                  THEN NameKwarg(basename(path)) ELSE NameKwarg(name)
      r == EntityInit(self, properties, annotations, MapUpdate(TypeKwarg("File"), kwargs))
  IN IF r.exc # "none" THEN r
     ELSE Built([r.ent EXCEPT !.hasPath = TRUE, !.path = path])

\* cls(...): __new__, then the __init__ the class resolves to
Construct(cls, name, path, properties, annotations) ==
  CASE cls \in {"Project", "Folder"} -> ProjectInit(New(cls), name, properties, annotations)
    [] cls = "File" -> FileInit(New(cls), name, path, properties, annotations)
    [] OTHER -> EntityInit(New(cls), properties, annotations, NameKwarg(name))

(***************************************************************************)
(* Entity.create(cls, properties, annotations).                            *)
(***************************************************************************)
\* DictObject.__add__, of dict_object.py: the combination of two mappings
DictAdd(d, annotations) ==
  CASE annotations.kind = "none" -> [exc |-> "none", arg |-> MapArg(DictObject(d))]
    [] annotations.kind = "map"  -> [exc |-> "none", arg |-> MapArg(MapUpdate(d, annotations.m))]
    [] OTHER                     -> [exc |-> "TypeError", arg |-> annotations]

\* the unpacking without 'del properties["id"]'
UnpackKeepingId(proto, properties, annotations) ==
  IF properties.kind # "ent"
    THEN [exc |-> "none", proto |-> proto, properties |-> properties, annotations |-> annotations]
  ELSE LET sum == DictAdd(proto.annotations, annotations) IN
       IF sum.exc # "none"
         THEN [exc |-> sum.exc, proto |-> proto, properties |-> properties, annotations |-> annotations]
       ELSE [exc |-> "none", proto |-> proto,
             properties |-> MapArg(proto.properties), annotations |-> sum.arg]

\* lines 83-86: an Entity given as properties is unpacked.  proto is the
\* prototype as the block leaves it: properties.properties is the prototype's
\* own container, and 'del properties["id"]' deletes from it.
Unpack(proto, properties, annotations) ==
  IF properties.kind # "ent"
    THEN [exc |-> "none", proto |-> proto, properties |-> properties, annotations |-> annotations]
  ELSE LET sum == DictAdd(proto.annotations, annotations) IN
       IF sum.exc # "none"
         THEN [exc |-> sum.exc, proto |-> proto, properties |-> properties, annotations |-> annotations]
       ELSE IF "id" \notin DOMAIN proto.properties
         THEN [exc |-> "KeyError", proto |-> proto, properties |-> properties, annotations |-> sum.arg]
       ELSE LET stripped == [proto EXCEPT !.properties = MapDel(@, "id")] IN
            [exc |-> "none", proto |-> stripped,
             properties |-> MapArg(stripped.properties), annotations |-> sum.arg]

\* line 87-88: the class that is constructed, or the TypeError of
\* "'entityType' in properties" on an object that is no container
Dispatch(cls, properties) ==
  IF cls # "Entity" THEN [exc |-> "none", cls |-> cls]
  ELSE IF properties.kind = "none" \/ (properties.kind = "other" /\ ~properties.iterable)
    THEN [exc |-> "TypeError", cls |-> cls]
  ELSE IF properties.kind = "map" /\ "entityType" \in DOMAIN properties.m
          /\ properties.m["entityType"] \in DOMAIN InitialRegistry
    THEN [exc |-> "none", cls |-> InitialRegistry[properties.m["entityType"]]]
  ELSE [exc |-> "none", cls |-> cls]

create(cls, proto, properties, annotations) ==
  LET u == Unpack(proto, properties, annotations) IN
  IF u.exc # "none" THEN [exc |-> u.exc, ent |-> NoEntity, proto |-> u.proto]
  ELSE LET d == Dispatch(cls, u.properties) IN
       IF d.exc # "none" THEN [exc |-> d.exc, ent |-> NoEntity, proto |-> u.proto]
       ELSE LET r == Construct(d.cls, "None", "None", u.properties, u.annotations) IN
            [exc |-> r.exc, ent |-> r.ent, proto |-> u.proto]

(***************************************************************************)
(* The state machine.                                                      *)
(*   ents[1] is an entity under use, ents[2] an entity made from ents[1]   *)
(*   as prototype; NoEntity stands for an entity that does not exist.      *)
(*   last is the last operation: its arguments, the entity (or prototype)  *)
(*   it found, and what it returned or raised.  nops counts operations.    *)
(***************************************************************************)
NoLast ==
  [op |-> "none", key |-> "", val |-> SV(""), res |-> Returned(SV("")),
   pre |-> NoEntity, cls |-> "Entity", name |-> "None", path |-> "None",
   properties |-> NoneArg, annotations |-> NoneArg, ks |-> {}, n |-> 0, b |-> FALSE]

\* inputs of the operations on an existing entity
OpKeys ==
  {"name", "annotations", "properties", "path", "versionNumber", "md5", "dataFileHandleId", "foo"}
Scalars == {"v1", "v2"}
MapValues == {EmptyMap, [k \in {"foo"} |-> "v2"], [k \in {"name"} |-> "v1"]}

\* a type-correct value for an assignment to key
ValuesFor(key) ==
  IF key \in {"properties", "annotations"}
    THEN {MV(m) : m \in MapValues} ELSE {SV(s) : s \in Scalars}

\* inputs of the constructions the entities under use come from
InitMaps ==
  {[k \in {"id"} |-> "v1"], [k \in {"foo"} |-> "v1"], [k \in {"name"} |-> "v1"]}
InitProps == {NoneArg} \cup {MapArg(m) : m \in InitMaps}
InitAnns ==
  {NoneArg, MapArg([k \in {"foo"} |-> "v2"]), MapArg([k \in {"name"} |-> "v2"]), StrArg("v2")}
Paths == {"None", "/tmp/v1"}

InitEntities ==
  {Construct(c, "None", pt, p, a).ent :
     c \in Classes, pt \in Paths, p \in InitProps, a \in InitAnns}

Init ==
  /\ ents \in {[s \in {1, 2} |-> IF s = 1 THEN e ELSE NoEntity] : e \in InitEntities}
  /\ last = NoLast
  /\ nops = 0

\* entity[key] = value, entity.key = value
SetItem(key, value) ==
  /\ nops < MaxOps
  /\ ents' = [ents EXCEPT ![1] = setitem(ents[1], key, value)]
  /\ last' = [NoLast EXCEPT !.op = "setitem", !.key = key, !.val = value, !.pre = ents[1]]
  /\ nops' = nops + 1

\* del entity[key]
DelItem(key) ==
  /\ nops < MaxOps
  /\ ents' = [ents EXCEPT ![1] = delitem(ents[1], key)]
  /\ last' = [NoLast EXCEPT !.op = "delitem", !.key = key, !.pre = ents[1]]
  /\ nops' = nops + 1

\* entity[key], entity.key
GetItem(key) ==
  /\ nops < MaxOps
  /\ last' = [NoLast EXCEPT !.op = "getitem", !.key = key, !.pre = ents[1],
                            !.res = getitem(ents[1], key)]
  /\ nops' = nops + 1
  /\ UNCHANGED ents

\* entity.has_key(key)
HasKey(key) ==
  /\ nops < MaxOps
  /\ last' = [NoLast EXCEPT !.op = "has_key", !.key = key, !.pre = ents[1],
                            !.b = has_key(ents[1], key)]
  /\ nops' = nops + 1
  /\ UNCHANGED ents

\* entity.keys()
Keys ==
  /\ nops < MaxOps
  /\ last' = [NoLast EXCEPT !.op = "keys", !.pre = ents[1], !.ks = keys(ents[1])]
  /\ nops' = nops + 1
  /\ UNCHANGED ents

\* list(entity): the keys __iter__ yields
Iter ==
  /\ nops < MaxOps
  /\ last' = [NoLast EXCEPT !.op = "iter", !.pre = ents[1], !.ks = iter(ents[1])]
  /\ nops' = nops + 1
  /\ UNCHANGED ents

\* len(entity)
Len ==
  /\ nops < MaxOps
  /\ last' = [NoLast EXCEPT !.op = "len", !.pre = ents[1], !.n = len(ents[1])]
  /\ nops' = nops + 1
  /\ UNCHANGED ents

Next ==
  \/ \E key \in OpKeys : \E value \in ValuesFor(key) : SetItem(key, value)
  \/ \E key \in OpKeys : DelItem(key)
  \/ \E key \in OpKeys : GetItem(key)
  \/ \E key \in OpKeys : HasKey(key)
  \/ Keys
  \/ Iter
  \/ Len

Spec == Init /\ [][Next]_vars

(***************************************************************************)
(* Construction: the state machine of the constructors and Entity.create.  *)
(* Entities share no state, so one entity built from raw arguments is      *)
(* enough; the second one is built from it as prototype.  A construction   *)
(* that raises ends the behaviour.                                         *)
(***************************************************************************)
TypeIds == {SynapseClass(c) : c \in Classes}

PayloadKeys == {"id", "entityType", "annotations", "foo"}

\* raw payloads: scalar fields, 'annotations' being absent, a string or (Nested) a mapping
PayloadMaps ==
  UNION {[ks -> {"v1"} \cup TypeIds] : ks \in SUBSET PayloadKeys}

Payloads ==
  {m \in PayloadMaps : \A k \in DOMAIN m : (m[k] \in TypeIds) <=> (k = "entityType")}

NestedMaps == {[k \in {"foo"} |-> "v2"]}

PropertiesArgs ==
  {NoneArg} \cup {MapArg(m) : m \in Payloads}
  \cup {NestedArg(m, n) : m \in {x \in Payloads : "annotations" \notin DOMAIN x}, n \in NestedMaps}
  \cup {StrArg("v1"), StrArg("")}
  \cup {OtherArg(t, i) : t \in BOOLEAN, i \in BOOLEAN}

AnnotationsArgs ==
  {NoneArg, MapArg(EmptyMap), MapArg([k \in {"foo"} |-> "v2"]), MapArg([k \in {"id"} |-> "v2"]),
   StrArg("v2"), OtherArg(TRUE, FALSE)}

Names == {"None", "v2"}

Outcome(exc) == IF exc = "none" THEN Returned(SV("")) ELSE Raised(exc)

InitCreate ==
  /\ ents = [s \in {1, 2} |-> NoEntity]
  /\ last = NoLast
  /\ nops = 0

\* cls(name=name, path=path, properties=properties, annotations=annotations)
Build(cls, name, path, properties, annotations) ==
  /\ nops = 0
  /\ cls # "File" => path = "None"
  /\ LET r == Construct(cls, name, path, properties, annotations) IN
     /\ ents' = [ents EXCEPT ![1] = r.ent]
     /\ last' = [NoLast EXCEPT !.op = "build", !.cls = cls, !.name = name, !.path = path,
                               !.properties = properties, !.annotations = annotations,
                               !.res = Outcome(r.exc)]
  /\ nops' = nops + 1

\* cls.create(properties=properties, annotations=annotations), properties no Entity
Create(cls, properties, annotations) ==
  /\ nops = 0
  /\ LET r == create(cls, NoEntity, properties, annotations) IN
     /\ ents' = [ents EXCEPT ![1] = r.ent]
     /\ last' = [NoLast EXCEPT !.op = "create", !.cls = cls,
                               !.properties = properties, !.annotations = annotations,
                               !.res = Outcome(r.exc)]
  /\ nops' = nops + 1

\* cls.create(properties=ents[1], annotations=annotations)
CreateFrom(cls, annotations) ==
  /\ nops = 1
  /\ ents[1].exists
  /\ LET r == create(cls, ents[1], EntArg, annotations) IN
     /\ ents' = [ents EXCEPT ![1] = r.proto, ![2] = r.ent]
     /\ last' = [NoLast EXCEPT !.op = "create_from", !.cls = cls, !.pre = ents[1],
                               !.properties = EntArg, !.annotations = annotations,
                               !.res = Outcome(r.exc)]
  /\ nops' = nops + 1

NextCreate ==
  \/ /\ nops = 0
     /\ \E cls \in Classes, name \in Names, path \in Paths :
          \E properties \in PropertiesArgs, annotations \in AnnotationsArgs :
            Build(cls, name, path, properties, annotations)
  \/ /\ nops = 0
     /\ \E cls \in Classes :
          \E properties \in PropertiesArgs, annotations \in AnnotationsArgs :
            Create(cls, properties, annotations)
  \/ /\ nops = 1
     /\ \E cls \in Classes : \E annotations \in AnnotationsArgs : CreateFrom(cls, annotations)

SpecCreate == InitCreate /\ [][NextCreate]_vars

(***************************************************************************)
(* Properties.  In Spec, e is the entity under use, and pre/key/val/res    *)
(* describe the last operation on it.                                      *)
(***************************************************************************)
e1 == ents[1]
pre == last.pre
InProperties(e, k) == k \in DOMAIN e.properties
InAnnotations(e, k) == k \in DOMAIN e.annotations

\* the members an object of class cls has right after construction
MembersAtConstruction(cls) ==
  {"properties", "annotations"} \cup (IF cls = "File" THEN {"path"} ELSE {})

\* C1: a read of key k returns the member k if the object has one, otherwise
\* properties[k] if k is in properties, otherwise annotations[k] if k is in
\* annotations, and raises KeyError exactly when k is in none of the three.
C1_ReadResolution ==
  last.op = "getitem" =>
    LET k == last.key IN
    /\ (k = "properties" => last.res = Returned(MV(pre.properties)))
    /\ (k = "annotations" => last.res = Returned(MV(pre.annotations)))
    /\ (k = "path" /\ pre.hasPath => last.res = Returned(SV(pre.path)))
    /\ (k \notin DictKeys(pre) /\ InProperties(pre, k)
          => last.res = Returned(SV(pre.properties[k])))
    /\ (k \notin DictKeys(pre) /\ ~InProperties(pre, k) /\ InAnnotations(pre, k)
          => last.res = Returned(SV(pre.annotations[k])))
    /\ (last.res.exc = "KeyError"
          <=> (k \notin DictKeys(pre) /\ ~InProperties(pre, k) /\ ~InAnnotations(pre, k)))
    /\ last.res.exc \in {"none", "KeyError"}
    /\ ents[1] = pre

\* a read of a key held, with different values, by properties and by annotations
C1_Witness ==
  /\ last.op = "getitem"
  /\ last.key \notin DictKeys(pre)
  /\ InProperties(pre, last.key) /\ InAnnotations(pre, last.key)
  /\ pre.properties[last.key] # pre.annotations[last.key]

\* C2, as stated: after entity[k] = v with k a declared property key of the
\* entity's class, entity[k] is v, k is in properties and k is not in annotations.
C2_Original ==
  (last.op = "setitem" /\ last.key \in PropertyKeys(pre.cls)) =>
    /\ getitem(e1, last.key) = Returned(last.val)
    /\ InProperties(e1, last.key)
    /\ ~InAnnotations(e1, last.key)

\* C2, amended: after entity[k] = v with k a declared property key of the
\* entity's class that is not the name of a member of the object, entity[k]
\* is v, k is in properties, and annotations is left as it was.
C2_DeclaredKeyRoundTrip ==
  (last.op = "setitem" /\ last.key \in PropertyKeys(pre.cls) /\ last.key \notin DictKeys(pre)) =>
    /\ getitem(e1, last.key) = Returned(last.val)
    /\ InProperties(e1, last.key)
    /\ e1.properties[last.key] = last.val.s
    /\ e1.annotations = pre.annotations

\* a key declared by the class only (not by Entity) is assigned on an entity
\* whose properties did not hold it
C2_Witness ==
  /\ last.op = "setitem"
  /\ last.key = "versionNumber"
  /\ pre.cls \in {"File", "Code", "Data", "Study", "Summary"}
  /\ ~InProperties(pre, "versionNumber")
  /\ InProperties(e1, "versionNumber")

\* C3: after entity[k] = v with k neither a declared property key nor the
\* name of a member, entity[k] is v, k is in annotations and not in properties.
C3_UndeclaredKeyRoundTrip ==
  (last.op = "setitem" /\ last.key \notin PropertyKeys(pre.cls) /\ last.key \notin DictKeys(pre)) =>
    /\ getitem(e1, last.key) = Returned(last.val)
    /\ InAnnotations(e1, last.key)
    /\ ~InProperties(e1, last.key)

\* C4: assignments and deletions leave the set of members of the object as
\* construction made it, and an assignment to a name that is no member
\* changes only properties (a declared key) or only annotations (any other).
C4_NoNewMember ==
  /\ DictKeys(e1) = MembersAtConstruction(e1.cls)
  /\ (last.op \in {"setitem", "delitem"} => DictKeys(e1) = DictKeys(pre))
  /\ (last.op = "setitem" /\ last.key \notin DictKeys(pre)) =>
       IF last.key \in PropertyKeys(pre.cls)
         THEN e1 = [pre EXCEPT !.properties = MapSet(@, last.key, last.val.s)]
         ELSE e1 = [pre EXCEPT !.annotations = MapSet(@, last.key, last.val.s)]

\* 'path' is assigned on an entity that has no such member: an annotation is made
C4_Witness ==
  /\ last.op = "setitem"
  /\ last.key = "path"
  /\ ~pre.hasPath
  /\ ~InAnnotations(pre, "path")
  /\ InAnnotations(e1, "path")

\* C7, as stated: has_key(k) is true exactly for the keys of properties and
\* annotations; keys(), iteration and len() are that union, and hold no name
\* of a member of the object.
C7_Original ==
  /\ (last.op = "has_key" => (last.b <=> last.key \in DOMAIN pre.properties \cup DOMAIN pre.annotations))
  /\ (last.op \in {"keys", "iter"} =>
        /\ last.ks = DOMAIN pre.properties \cup DOMAIN pre.annotations
        /\ last.ks \cap DictKeys(pre) = {})
  /\ (last.op = "len" => last.n = Cardinality(DOMAIN pre.properties \cup DOMAIN pre.annotations))

\* C7, amended: has_key(k) is true exactly for the keys of properties and
\* annotations, so it is false for a name that is only a member of the object
\* and for a name in no namespace; keys(), iteration and len() are that same
\* union, which holds the name of a member only when properties or
\* annotations has a key of that name.
C7_KeysAreTheUnion ==
  LET union == DOMAIN pre.properties \cup DOMAIN pre.annotations IN
  /\ (last.op = "has_key" =>
        /\ (last.b <=> last.key \in union)
        /\ (last.key \in DictKeys(pre) \ union => ~last.b))
  /\ (last.op \in {"keys", "iter"} =>
        /\ last.ks = union
        /\ \A k \in DictKeys(pre) : k \in last.ks => (InProperties(pre, k) \/ InAnnotations(pre, k)))
  /\ (last.op = "len" => last.n = Cardinality(union))
  /\ (last.op \in {"has_key", "keys", "iter", "len"} => ents[1] = pre)

\* has_key('path') on a File, whose path is a member only
C7_Witness ==
  /\ last.op = "has_key"
  /\ last.key = "path"
  /\ pre.cls = "File" /\ pre.hasPath /\ pre.path = "/tmp/v1"
  /\ ~last.b
  /\ keys(pre) # {}

\* C9, as stated: after del entity[k], k is in neither container; the members
\* and every other property and annotation are as before; nothing changes
\* when k was in neither.
C9_Original ==
  last.op = "delitem" =>
    /\ ~InProperties(e1, last.key) /\ ~InAnnotations(e1, last.key)
    /\ e1.hasPath = pre.hasPath /\ e1.path = pre.path /\ e1.cls = pre.cls
    /\ \A k \in (DOMAIN pre.properties) \ {last.key} :
         InProperties(e1, k) /\ e1.properties[k] = pre.properties[k]
    /\ \A k \in (DOMAIN pre.annotations) \ {last.key} :
         InAnnotations(e1, k) /\ e1.annotations[k] = pre.annotations[k]
    /\ (~InProperties(pre, last.key) /\ ~InAnnotations(pre, last.key) => e1 = pre)

\* C9, amended: del entity[k] removes k from properties when properties holds
\* it, and otherwise from annotations when annotations holds it; a key held
\* by both stays in annotations.  The members and every other property and
\* annotation are as before, and nothing changes when k was in neither, also
\* when k names a member.
C9_DeleteFirstHolder ==
  last.op = "delitem" =>
    /\ e1.hasPath = pre.hasPath /\ e1.path = pre.path /\ e1.cls = pre.cls
    /\ (InProperties(pre, last.key) =>
          /\ DOMAIN e1.properties = (DOMAIN pre.properties) \ {last.key}
          /\ e1.annotations = pre.annotations)
    /\ (~InProperties(pre, last.key) /\ InAnnotations(pre, last.key) =>
          /\ DOMAIN e1.annotations = (DOMAIN pre.annotations) \ {last.key}
          /\ e1.properties = pre.properties)
    /\ \A k \in DOMAIN e1.properties : e1.properties[k] = pre.properties[k]
    /\ \A k \in DOMAIN e1.annotations : e1.annotations[k] = pre.annotations[k]
    /\ (~InProperties(pre, last.key) /\ ~InAnnotations(pre, last.key) => e1 = pre)

\* a key held by both containers is deleted
C9_Witness ==
  /\ last.op = "delitem"
  /\ InProperties(pre, last.key) /\ InAnnotations(pre, last.key)
  /\ ~InProperties(e1, last.key) /\ InAnnotations(e1, last.key)

(***************************************************************************)
(* Properties of construction (SpecCreate).  After create_from, pre is the *)
(* prototype as create found it, ents[1] the prototype as create left it   *)
(* and ents[2] the entity create returned.                                 *)
(***************************************************************************)
e2 == ents[2]
Succeeded == last.res.exc = "none"

\* a prototype that has an identifier, and supplied annotations that are absent or a mapping
PrototypeCase ==
  /\ last.op = "create_from"
  /\ InProperties(pre, "id")
  /\ last.annotations.kind \in {"none", "map"}

\* the class create constructs for a prototype: the one asked for, or, asked
\* for Entity, the registered class the prototype's entityType names
PrototypeClass ==
  IF last.cls = "Entity" /\ InProperties(pre, "entityType")
     /\ \E c \in itersubclasses : SynapseClass(c) = pre.properties["entityType"]
    THEN CHOOSE c \in itersubclasses : SynapseClass(c) = pre.properties["entityType"]
    ELSE last.cls

\* C5, as stated: create(properties=e) for an e that has an identifier yields
\* an entity with no id key, whose properties are exactly e's without id and
\* whose annotations contain all of e's.
C5_Original ==
  PrototypeCase =>
    /\ Succeeded /\ e2.exists
    /\ ~has_key(e2, "id")
    /\ e2.properties = MapDel(pre.properties, "id")
    /\ \A k \in DOMAIN pre.annotations : InAnnotations(e2, k)

\* C5, amended: create(properties=e, annotations=a) for an e whose properties
\* hold id, a absent or a mapping, yields an entity whose properties do not
\* hold id and are e's properties without id, with entityType set to the
\* constructed class's type identifier when that class is Project, Folder
\* or File; its annotation keys are those of e's annotations and of a, a
\* key held by one of the two only keeping its value (so an annotation named
\* id, of e or of a, is kept).
C5_PrototypeConstruction ==
  PrototypeCase =>
    /\ Succeeded /\ e2.exists
    /\ e2.cls = PrototypeClass
    /\ ~InProperties(e2, "id")
    /\ e2.properties =
         IF e2.cls \in {"Project", "Folder", "File"}
           THEN MapSet(MapDel(pre.properties, "id"), "entityType", SynapseClass(e2.cls))
           ELSE MapDel(pre.properties, "id")
    /\ DOMAIN e2.annotations = (DOMAIN pre.annotations) \cup (DOMAIN last.annotations.m)
    /\ \A k \in DOMAIN pre.annotations :
         k \notin DOMAIN last.annotations.m => e2.annotations[k] = pre.annotations[k]
    /\ \A k \in DOMAIN last.annotations.m :
         k \notin DOMAIN pre.annotations => e2.annotations[k] = last.annotations.m[k]

\* a prototype with an identifier, another property and an annotation is
\* cloned, with annotations supplied
C5_Witness ==
  /\ PrototypeCase
  /\ Succeeded
  /\ DOMAIN pre.properties = {"id", "entityType", "foo"}
  /\ DOMAIN pre.annotations = {"foo"}
  /\ last.annotations.kind = "map" /\ DOMAIN last.annotations.m = {"id"}
  /\ e2.cls = "Folder" /\ last.cls = "Entity"

\* the class the claim gives create(payload): asked for Entity, the registered
\* class whose type identifier the payload's entityType is; in every other
\* case the class asked for
ClaimedClass ==
  LET m == last.properties.m IN
  IF last.cls = "Entity" /\ "entityType" \in DOMAIN m
     /\ \E c \in itersubclasses : SynapseClass(c) = m["entityType"]
    THEN CHOOSE c \in itersubclasses : SynapseClass(c) = m["entityType"]
    ELSE last.cls

\* C6: create on a raw payload (annotations not given, or given as a mapping)
\* returns an instance of the class the payload's entityType names in the
\* registry when Entity is asked for, and of the class asked for otherwise.
C6_VariantDispatch ==
  (last.op = "create" /\ last.properties.kind = "map"
   /\ last.annotations.kind \in {"none", "map"}) =>
    /\ Succeeded /\ e1.exists
    /\ e1.cls = ClaimedClass

\* C8: a properties argument that is neither a mapping nor an Entity (nor
\* absent) makes the constructors and create raise the exception that names
\* the properties argument, and no entity is made (the annotations argument
\* being absent or a mapping).
C8_RejectsNonMapping ==
  (last.op \in {"build", "create"} /\ last.properties.kind \in {"str", "other"}
   /\ last.annotations.kind \in {"none", "map"}) =>
    /\ last.res.exc = "Exception:properties"
    /\ ~e1.exists

\* C10: create(properties=e) leaves the prototype e as it found it.
C10_PrototypeUnchanged ==
  last.op = "create_from" => ents[1] = pre

====
